---- MODULE Spec2Model ----
(***************************************************************************)
(* Order book relay: the snapshot+diff synchroniser                        *)
(* (process_order_book_updates and its consumer                            *)
(* handle_websocket_connection), the in-memory OrderBook, and the          *)
(* per-client symbol handler (order_book_stream).                          *)
(*                                                                         *)
(* Four specifications share the module's variables; each leaves the       *)
(* variables of the other parts at their initial values:                   *)
(*   Spec         the synchroniser and handle_websocket_connection         *)
(*   SpecBook     OrderBook.update on a small set of prices                *)
(*   SpecTop      OrderBook with more than 20 levels per side              *)
(*   SpecSession  order_book_stream and the ConnectionManager              *)
(***************************************************************************)
EXTENDS Integers, Sequences, FiniteSets, TLC

VARIABLES
    \* ---- OrderBook (engine.py 63-95)
    bids,       \* self._bids : price key -> quantity (Decimal)
    asks,       \* self._asks : price key -> quantity (Decimal)
    stale,      \* history: per side, the price keys whose latest update had quantity 0
    bookFault,  \* the exception the last update call raised ("none" if none)
    args,       \* SpecCall: the two lists handed to update
    applied,    \* SpecCall: how often update was called with them
    before,     \* SpecCall: the book as it was before the latest call
    \* ---- process_order_book_updates (engine.py 158-196)
    gpc,        \* position of the async generator
    stream,     \* upstream subscription: "unopened", "open", "closed"
    U0,         \* order_book_update_id
    prev,       \* previous_last_update_id (NoneId before it is assigned)
    ev,         \* the upstream message the loop looked at last
    buffered,   \* messages received on the subscription that the loop has not read
    pending,    \* the value the generator is suspended on at a yield
    emitted,    \* history: every OrderBookUpdate yielded so far
    fault,      \* the exception that ended the generator ("none" if none)
    \* ---- handle_websocket_connection (engine.py 199-213)
    hpc,        \* position of the handler
    frames,     \* history: the updates sent to the client with send_text
    closes,     \* number of websocket.close() calls
    \* ---- order_book_stream (websocket.py 13-28, connection.py 14-65) and
    \*      the ConnectionManager it drives
    variant,    \* which order_book_stream runs: "websocket" or "connection"
    spc,        \* position of the client handler
    session,    \* the manager's entry for the client: "absent" or "present"
    conn,       \* the client connection: "new", "open", "closed"
    active,     \* the session's active task (an index of tasks, 0 for none)
    newTask,    \* the task set_task is waiting to install (0 for none)
    tasks,      \* every subscription task created for the client
    data,       \* the text frame received last
    nrecv,      \* number of inbound frames received
    out,        \* history: the frames sent on the client connection
    mfault,     \* the exception a ConnectionManager call raised ("none" if none)
    ndisc       \* history: number of disconnect calls

bookVars == <<bids, asks, stale, bookFault>>
callVars == <<args, applied, before>>
syncVars == <<gpc, stream, U0, prev, ev, buffered, pending, emitted, fault, hpc, frames, closes>>
sessVars == <<variant, spc, session, conn, active, newTask, tasks, data, nrecv, out, mfault, ndisc>>
vars == <<bids, asks, stale, bookFault, args, applied, before, gpc, buffered, stream, U0, prev, ev, pending, emitted, fault,
          hpc, frames, closes, variant, spc, session, conn, active, newTask, tasks,
          data, nrecv, out,
          mfault, ndisc>>

(***************************************************************************)
(* Bounds of the model.                                                    *)
(***************************************************************************)
MaxSeq == 5        \* update ids carried by upstream events: 0..MaxSeq
MaxU0 == 3         \* lastUpdateId of a snapshot: 1..MaxU0
MaxEmit == 3       \* updates yielded by one generator (snapshot included)
MaxBuf == 2        \* messages that arrive while the snapshot is fetched
MaxOffers == 2     \* offers in one list handed to OrderBook.update
MaxLevels == 22    \* price levels a snapshot-sized update can fill (SpecTop)
MaxTasks == 2      \* subscription tasks created for one client
MaxRecv == 3       \* inbound frames one client sends
MaxOut == 2        \* outbound frames recorded for one client

(***************************************************************************)
(* Decimal: a coefficient c and a number of decimals e, value c / 10^e.    *)
(* The wire strings "1" and "1.0" decode to different Decimals that        *)
(* compare (and hash) equal.                                               *)
(***************************************************************************)
Scale == 1         \* most decimals used by the offers of the model

Pow10(n) == IF n = 0 THEN 1 ELSE IF n = 1 THEN 10 ELSE 100

Dec(c, e) == [c |-> c, e |-> e]

\* Decimal.__eq__ / __hash__ on dictionary keys: the numeric value, in units
\* of 10^-Scale.
Key(d) == d.c * Pow10(Scale - d.e)

\* update.quantity == 0
IsZero(d) == d.c = 0

DigitChar(n) == <<"0", "1", "2", "3", "4", "5", "6", "7", "8", "9">>[n + 1]

RECURSIVE Digits(_)
Digits(n) == IF n < 10 THEN <<DigitChar(n)>>
             ELSE Digits(n \div 10) \o <<DigitChar(n % 10)>>

\* str(Decimal): the digits, with a point before the last e of them.
DecStr(d) ==
    LET ds == Digits(d.c)
        padded == IF Len(ds) <= d.e
                  THEN [i \in 1..(d.e + 1 - Len(ds)) |-> "0"] \o ds
                  ELSE ds
        n == Len(padded)
    IN  IF d.e = 0 THEN padded
        ELSE SubSeq(padded, 1, n - d.e) \o <<".">> \o SubSeq(padded, n - d.e + 1, n)

Offer(p, q) == [price |-> p, quantity |-> q]

(***************************************************************************)
(* OrderBook                                                               *)
(***************************************************************************)
EmptyDict == [k \in {} |-> Dec(0, 0)]

DictDel(d, k) == [x \in (DOMAIN d) \ {k} |-> d[x]]
DictSet(d, k, v) == [x \in (DOMAIN d) \cup {k} |-> IF x = k THEN v ELSE d[x]]

\* A plausible slip: a zero quantity is stored like any other.
RECURSIVE _update_offers_keep_zero(_, _)
_update_offers_keep_zero(offers_dict, updates) ==
    IF updates = <<>> THEN offers_dict
    ELSE _update_offers_keep_zero(
             DictSet(offers_dict, Key(Head(updates).price), Head(updates).quantity),
             Tail(updates))

\* Decimal addition.
DecAdd(x, y) ==
    LET e == IF x.e > y.e THEN x.e ELSE y.e
    IN  Dec(x.c * Pow10(e - x.e) + y.c * Pow10(e - y.e), e)

\* A plausible slip: the quantity is added to the level instead of replacing it.
RECURSIVE _update_offers_accumulate(_, _)
_update_offers_accumulate(offers_dict, updates) ==
    IF updates = <<>> THEN offers_dict
    ELSE LET update == Head(updates)
             k == Key(update.price)
         IN  _update_offers_accumulate(
                 IF IsZero(update.quantity)
                 THEN DictDel(offers_dict, k)
                 ELSE DictSet(offers_dict, k,
                              IF k \in DOMAIN offers_dict
                              THEN DecAdd(offers_dict[k], update.quantity)
                              ELSE update.quantity),
                 Tail(updates))

RECURSIVE _update_offers(_, _)
_update_offers(offers_dict, updates) ==
    IF updates = <<>> THEN offers_dict
    ELSE LET update == Head(updates)
             k == Key(update.price)
         IN  _update_offers(
                 IF IsZero(update.quantity)
                 THEN DictDel(offers_dict, k)      \* KeyError is swallowed
                 ELSE DictSet(offers_dict, k, update.quantity),
                 Tail(updates))

\* The exception types the except clause of line 77 names.
Swallowed == {"KeyError"}

\* A plausible slip: the del of line 76 without its try block.
RECURSIVE _update_offers_fault_uncaught(_, _)
_update_offers_fault_uncaught(offers_dict, updates) ==
    IF updates = <<>> THEN "none"
    ELSE IF IsZero(Head(updates).quantity)
            /\ Key(Head(updates).price) \notin DOMAIN offers_dict
         THEN "KeyError"
         ELSE _update_offers_fault_uncaught(
                  _update_offers(offers_dict, <<Head(updates)>>), Tail(updates))

\* The exception that leaves _update_offers: the del of line 76 raises KeyError
\* for a price that is not a key, no other statement of the loop raises.
RECURSIVE _update_offers_fault(_, _)
_update_offers_fault(offers_dict, updates) ==
    IF updates = <<>> THEN "none"
    ELSE IF /\ IsZero(Head(updates).quantity)
            /\ Key(Head(updates).price) \notin DOMAIN offers_dict
            /\ "KeyError" \notin Swallowed
         THEN "KeyError"
         ELSE _update_offers_fault(
                  _update_offers(offers_dict, <<Head(updates)>>), Tail(updates))

\* History variable: the keys whose latest update had quantity 0.
RECURSIVE StaleAfter(_, _)
StaleAfter(s, updates) ==
    IF updates = <<>> THEN s
    ELSE StaleAfter(IF Head(updates).quantity.c = 0
                    THEN s \cup {Key(Head(updates).price)}
                    ELSE s \ {Key(Head(updates).price)},
                    Tail(updates))

\* OrderBook.update(bids, asks)
\* A plausible slip: both lists are applied to the bid side.
update_one_side(bs, as) ==
    /\ bids' = _update_offers(_update_offers(bids, bs), as)
    /\ asks' = asks
    /\ stale' = [b |-> StaleAfter(stale.b, bs), a |-> StaleAfter(stale.a, as)]
    /\ bookFault' = "none"

update(bs, as) ==
    /\ bids' = _update_offers(bids, bs)
    /\ asks' = _update_offers(asks, as)
    /\ stale' = [b |-> StaleAfter(stale.b, bs), a |-> StaleAfter(stale.a, as)]
    /\ bookFault' = IF _update_offers_fault(bids, bs) # "none"
                    THEN _update_offers_fault(bids, bs)
                    ELSE _update_offers_fault(asks, as)

\* SortedDict.values(): the values in ascending key order.
RECURSIVE values(_)
values(d) ==
    IF DOMAIN d = {} THEN <<>>
    ELSE LET k == CHOOSE x \in DOMAIN d : \A y \in DOMAIN d : x <= y
         IN  <<d[k]>> \o values(DictDel(d, k))

TopN == 20

\* Python's v[:n]
SliceHead(v, n) == SubSeq(v, 1, IF Len(v) < n THEN Len(v) ELSE n)

\* Python's v[-1:-(n+1):-1]: from the last element backwards, stopping before
\* the element n+1 places from the end.
SliceTailReversed(v, n) ==
    LET len == Len(v)
        cnt == IF len < n THEN len ELSE n
    IN  [i \in 1..cnt |-> v[len + 1 - i]]

\* A plausible slip: the stop index one short, [-1:-20:-1].
top_bids_short(d) == [i \in 1..Len(SliceTailReversed(values(d), TopN - 1)) |->
                        DecStr(SliceTailReversed(values(d), TopN - 1)[i])]

top_bids(d) == [i \in 1..Len(SliceTailReversed(values(d), TopN)) |->
                  DecStr(SliceTailReversed(values(d), TopN)[i])]

top_asks(d) == [i \in 1..Len(SliceHead(values(d), TopN)) |->
                  DecStr(SliceHead(values(d), TopN)[i])]

(***************************************************************************)
(* Book specifications.  SpecBook: every list of at most MaxOffers offers   *)
(* over a small set of prices and quantities, among them two spellings of  *)
(* the same price ("1", "1.0") and of zero ("0", "0.0").                   *)
(***************************************************************************)
BookPrices == {Dec(1, 0), Dec(10, 1), Dec(2, 0)}
BookQuantities == {Dec(0, 0), Dec(0, 1), Dec(1, 0), Dec(25, 1)}
BookOffers == {Offer(p, q) : p \in BookPrices, q \in BookQuantities}

SeqsUpTo(S, n) == UNION {[1..k -> S] : k \in 0..n}

NoArgs == [b |-> <<>>, a |-> <<>>]

IdleCall == args = NoArgs /\ applied = "no" /\ before = [b |-> EmptyDict, a |-> EmptyDict]

IdleBook ==
    /\ bids = EmptyDict /\ asks = EmptyDict /\ stale = [b |-> {}, a |-> {}]
    /\ bookFault = "none"

UpdateBids == \E bs \in SeqsUpTo(BookOffers, MaxOffers) : update(bs, <<>>)
UpdateAsks == \E as \in SeqsUpTo(BookOffers, MaxOffers) : update(<<>>, as)
UpdateBoth == \E b \in BookOffers, a \in BookOffers : update(<<b>>, <<a>>)

(***************************************************************************)
(* SpecTop: books deeper than the 20-level window.  One update carries a   *)
(* snapshot-sized list (levels 1..n on both sides, the quantity of level p *)
(* being p, so that the order of the result shows); single offers then     *)
(* change or remove the best and the worst level of either side.           *)
(***************************************************************************)
FillOffers(n) == [p \in 1..n |-> Offer(Dec(p, 0), Dec(p, 0))]

ProbePrices == {Dec(1, 0), Dec(MaxLevels, 0)}
ProbeQuantities == {Dec(0, 0), Dec(0, 1), Dec(5, 1)}
ProbeOffers == {Offer(p, q) : p \in ProbePrices, q \in ProbeQuantities}

UpdateLevels == \E n \in 0..MaxLevels : update(FillOffers(n), FillOffers(n))
UpdateOneBid == \E o \in ProbeOffers : update(<<o>>, <<>>)
UpdateOneAsk == \E o \in ProbeOffers : update(<<>>, <<o>>)

(***************************************************************************)
(* SpecCall: update as a function of the book and of its two lists.  The   *)
(* book before the call is any book over two prices without a zero         *)
(* quantity, the lists are drawn with it, and update is called with them   *)
(* once and then once more.                                                *)
(***************************************************************************)
CallPrices == {Dec(1, 0), Dec(10, 1), Dec(2, 0)}
CallQuantities == {Dec(0, 0), Dec(1, 0), Dec(25, 1)}
CallOffers == {Offer(p, q) : p \in CallPrices, q \in CallQuantities}

BooksOver(P) ==
    UNION {[K -> {q \in CallQuantities : ~IsZero(q)}] : K \in SUBSET {Key(p) : p \in P}}

CallArgs ==
    {[b |-> bs, a |-> as] : bs \in SeqsUpTo(CallOffers, MaxOffers),
                            as \in {<<>>} \cup {<<o>> : o \in CallOffers}}

FirstCall ==
    /\ applied = "no" /\ applied' = "once"
    /\ before' = [b |-> bids, a |-> asks]
    /\ update(args.b, args.a)
    /\ UNCHANGED args

SecondCall ==
    /\ applied = "once" /\ applied' = "twice"
    /\ before' = [b |-> bids, a |-> asks]
    /\ update(args.b, args.a)
    /\ UNCHANGED args

(***************************************************************************)
(* The synchroniser: process_order_book_updates, an async generator, and   *)
(* the handler that iterates it, handle_websocket_connection.              *)
(***************************************************************************)
NoneId == -1      \* Python's None where an update id is expected

NoEvent == [kind |-> "none", U |-> 0, u |-> 0, b |-> <<>>, a |-> <<>>]
NoUpdate == [src |-> "none", U |-> 0, u |-> 0, bids |-> <<>>, asks |-> <<>>]

\* The raw 'b' and 'a' lists of a depth event, each level a token, and the raw
\* lists of a snapshot.
RawLists == {[b |-> <<"x">>, a |-> <<>>], [b |-> <<>>, a |-> <<"y">>]}
SnapshotLists == [b |-> <<"s">>, a |-> <<"t">>]

\* Upstream messages: depth events with every first/last pair and raw lists, JSON
\* messages of another event type (with every first/last pair too), and a frame
\* that is not JSON.
Messages ==
    {[kind |-> "depthUpdate", U |-> a, u |-> b, b |-> l.b, a |-> l.a] :
         a \in 0..MaxSeq, b \in 0..MaxSeq, l \in RawLists}
    \cup {[kind |-> "other", U |-> a, u |-> b, b |-> <<>>, a |-> <<>>] :
              a \in 0..MaxSeq, b \in 0..MaxSeq}
    \cup {[kind |-> "badjson", U |-> 0, u |-> 0, b |-> <<>>, a |-> <<>>]}

\* The exceptions the except clause of handle_websocket_connection names.
Caught == {"ConnectionClosedError", "ConnectionClosed", "socket.error",
           "TimeoutError", "StreamIntegrityError"}

\* A plausible slip: every JSON message is taken for a depth event.
watch_depth_stream_any_json(msg) == msg.kind # "badjson"

\* watch_depth_stream: does the message become a DepthUpdateEvent?
watch_depth_stream(msg) == msg.kind = "depthUpdate"

\* A plausible slip: the comparison with previous_last_update_id dropped.
check_no_continuity(e, u0, p) ==
    IF e.u <= u0 THEN "discard" ELSE "emit"

\* A plausible slip: outdated events reach the continuity check.
check_no_discard(e, u0, p) ==
    IF p # NoneId
    THEN IF e.U # p + 1 THEN "fault" ELSE "emit"
    ELSE IF ~(e.U <= u0 + 1 /\ u0 + 1 <= e.u) THEN "fault" ELSE "emit"

\* Lines 179-193 for one event: discard it, raise StreamIntegrityError, or go on
\* to the yield.
check(e, u0, p) ==
    IF e.u <= u0 THEN "discard"
    ELSE IF p # NoneId
         THEN IF e.U # p + 1 THEN "fault" ELSE "emit"
         ELSE IF ~(e.U <= u0 + 1 /\ u0 + 1 <= e.u) THEN "fault" ELSE "emit"

IdleSync ==
    /\ gpc = "init" /\ stream = "unopened" /\ U0 = NoneId /\ prev = NoneId
    /\ ev = NoEvent /\ buffered = 0
    /\ pending = NoUpdate /\ emitted = <<>> /\ fault = "none"
    /\ hpc = "init" /\ frames = <<>> /\ closes = 0

\* ---- the generator
\* line 167: connect(ws_uri, ...) as stream
Connect ==
    /\ hpc = "streaming" /\ gpc = "init"
    /\ \/ gpc' = "opened" /\ stream' = "open" /\ fault' = fault
       \/ \E x \in {"socket.error", "TimeoutError"} :
              gpc' = "raised" /\ fault' = x /\ stream' = stream
    /\ UNCHANGED <<U0, prev, ev, pending, emitted, hpc, frames, closes>>
    /\ UNCHANGED buffered

\* A plausible slip: a failed snapshot request is passed over and the loop
\* starts on the events of the subscription.
FetchSnapshot_failure_ignored ==
    /\ hpc = "streaming" /\ gpc = "opened"
    /\ \/ \E u0 \in 1..MaxU0 :
              /\ U0' = u0
              /\ pending' = [src |-> "snapshot", U |-> u0, u |-> u0,
                              bids |-> SnapshotLists.b, asks |-> SnapshotLists.a]
              /\ emitted' = Append(emitted, pending')
              /\ gpc' = "yield_snapshot"
              /\ UNCHANGED <<stream, fault, prev>>
       \/ /\ gpc' = "loop" /\ U0' = 0 /\ prev' = 0
          /\ UNCHANGED <<stream, fault, pending, emitted>>
    /\ UNCHANGED <<ev, hpc, frames, closes>>
    /\ UNCHANGED buffered

\* lines 168-170: the snapshot is fetched and yielded; a failed or timed-out
\* request leaves the async with block, which closes the subscription.
FetchSnapshot ==
    /\ hpc = "streaming" /\ gpc = "opened"
    /\ \/ \E u0 \in 1..MaxU0 :
              /\ U0' = u0
              /\ pending' = [src |-> "snapshot", U |-> u0, u |-> u0,
                              bids |-> SnapshotLists.b, asks |-> SnapshotLists.a]
              /\ emitted' = Append(emitted, pending')
              /\ gpc' = "yield_snapshot"
              /\ UNCHANGED <<stream, fault>>
       \/ \E x \in {"TimeoutError", "ClientResponseError"} :
              /\ gpc' = "raised" /\ fault' = x /\ stream' = "closed"
              /\ UNCHANGED <<U0, pending, emitted>>
    /\ UNCHANGED <<prev, ev, hpc, frames, closes>>
    /\ UNCHANGED buffered

\* lines 167-168: the subscription is open and the snapshot request is in
\* flight; what the exchange sends meanwhile waits in the connection's queue.
Arrives ==
    /\ hpc = "streaming" /\ gpc = "opened" /\ stream = "open"
    /\ buffered < MaxBuf /\ buffered' = buffered + 1
    /\ UNCHANGED <<gpc, stream, U0, prev, ev, pending, emitted, fault, hpc, frames, closes>>

\* The consumer asks for the next value: the generator runs on from its yield,
\* lines 171-173 after the snapshot, line 196 after a diff.
Resume ==
    /\ hpc = "streaming" /\ pending = NoUpdate
    /\ \/ gpc = "yield_snapshot" /\ prev' = U0
       \/ gpc = "yield_diff" /\ prev' = ev.u
    /\ gpc' = "loop"
    /\ UNCHANGED <<stream, U0, ev, pending, emitted, fault, hpc, frames, closes>>
    /\ UNCHANGED buffered

\* lines 175-195 for one upstream message.
NextMessage ==
    /\ hpc = "streaming" /\ gpc = "loop" /\ Len(emitted) < MaxEmit
    /\ \E msg \in Messages :
        /\ ev' = msg
        /\ IF ~watch_depth_stream(msg)
           THEN UNCHANGED <<gpc, stream, pending, emitted, fault>>
           ELSE CASE check(msg, U0, prev) = "discard" ->
                        UNCHANGED <<gpc, stream, pending, emitted, fault>>
                  [] check(msg, U0, prev) = "fault" ->
                        /\ gpc' = "raised" /\ fault' = "StreamIntegrityError"
                        /\ stream' = "closed"
                        /\ UNCHANGED <<pending, emitted>>
                  [] check(msg, U0, prev) = "emit" ->
                        /\ pending' = [src |-> "diff", U |-> msg.U, u |-> msg.u,
                                        bids |-> msg.b, asks |-> msg.a]
                        /\ emitted' = Append(emitted, pending')
                        /\ gpc' = "yield_diff"
                        /\ UNCHANGED <<stream, fault>>
    /\ buffered' = IF buffered > 0 THEN buffered - 1 ELSE 0
    /\ UNCHANGED <<U0, prev, hpc, frames, closes>>

\* line 144: the upstream connection closes normally, the async for ends and
\* so does the generator.
StreamEnds ==
    /\ hpc = "streaming" /\ gpc = "loop" /\ buffered = 0
    /\ gpc' = "returned" /\ stream' = "closed"
    /\ UNCHANGED <<U0, prev, ev, pending, emitted, fault, hpc, frames, closes>>
    /\ UNCHANGED buffered

\* line 144: the upstream connection breaks (a ping that is not answered too).
StreamBreaks ==
    /\ hpc = "streaming" /\ gpc = "loop" /\ buffered = 0
    /\ gpc' = "raised" /\ fault' = "ConnectionClosedError" /\ stream' = "closed"
    /\ UNCHANGED <<U0, prev, ev, pending, emitted, hpc, frames, closes>>
    /\ UNCHANGED buffered

\* ---- handle_websocket_connection
\* line 204
Accept ==
    /\ hpc = "init" /\ hpc' = "streaming"
    /\ UNCHANGED <<gpc, stream, U0, prev, ev, pending, emitted, fault, frames, closes>>
    /\ UNCHANGED buffered

\* The lists of all updates of a sequence, one after the other.
RECURSIVE Aggregate(_)
Aggregate(updates) ==
    IF updates = <<>> THEN [bids |-> <<>>, asks |-> <<>>]
    ELSE [bids |-> Head(updates).bids \o Aggregate(Tail(updates)).bids,
          asks |-> Head(updates).asks \o Aggregate(Tail(updates)).asks]

\* A plausible slip: the frame carries the levels accumulated so far.
SendText_aggregated ==
    /\ hpc = "streaming" /\ pending # NoUpdate
    /\ \/ /\ frames' = Append(frames, Aggregate(emitted))
          /\ pending' = NoUpdate
          /\ UNCHANGED <<gpc, stream, hpc, closes>>
       \/ /\ hpc' = "failed" /\ closes' = closes + 1
          /\ gpc' = "closed" /\ stream' = "closed"
          /\ UNCHANGED <<frames, pending>>
    /\ UNCHANGED <<U0, prev, ev, emitted, fault>>
    /\ UNCHANGED buffered

\* line 208: the yielded update goes to the client; a failed send is none of the
\* exceptions the handler names, so the finally clause closes and it propagates.
SendText ==
    /\ hpc = "streaming" /\ pending # NoUpdate
    /\ \/ /\ frames' = Append(frames, [bids |-> pending.bids, asks |-> pending.asks])
          /\ pending' = NoUpdate
          /\ UNCHANGED <<gpc, stream, hpc, closes>>
       \/ /\ hpc' = "failed" /\ closes' = closes + 1
          /\ gpc' = "closed" /\ stream' = "closed"
          /\ UNCHANGED <<frames, pending>>
    /\ UNCHANGED <<U0, prev, ev, emitted, fault>>
    /\ UNCHANGED buffered

\* lines 207, 211-213: the generator is exhausted.
LoopEnds ==
    /\ hpc = "streaming" /\ gpc = "returned"
    /\ hpc' = "done" /\ closes' = closes + 1
    /\ UNCHANGED <<gpc, stream, U0, prev, ev, pending, emitted, fault, frames>>
    /\ UNCHANGED buffered

\* A plausible slip: the close sits in the except clause, not in a finally.
LoopRaises_close_in_except ==
    /\ hpc = "streaming" /\ gpc = "raised"
    /\ hpc' = IF fault \in Caught THEN "done" ELSE "failed"
    /\ closes' = IF fault \in Caught THEN closes + 1 ELSE closes
    /\ UNCHANGED <<gpc, stream, U0, prev, ev, pending, emitted, fault, frames>>
    /\ UNCHANGED buffered

\* lines 209-213: the generator raised.
LoopRaises ==
    /\ hpc = "streaming" /\ gpc = "raised"
    /\ hpc' = IF fault \in Caught THEN "done" ELSE "failed"
    /\ closes' = closes + 1
    /\ UNCHANGED <<gpc, stream, U0, prev, ev, pending, emitted, fault, frames>>
    /\ UNCHANGED buffered

\* The handler's task is cancelled while it waits in the loop.
Cancelled ==
    /\ hpc = "streaming" /\ gpc \notin {"returned", "raised"}
    /\ hpc' = "cancelled" /\ closes' = closes + 1
    /\ gpc' = "closed"
    /\ stream' = IF stream = "open" THEN "closed" ELSE stream
    /\ UNCHANGED <<U0, prev, ev, pending, emitted, fault, frames>>
    /\ UNCHANGED buffered

(***************************************************************************)
(* The client handler order_book_stream, in its two versions, and the      *)
(* ConnectionManager.  Text is a sequence of one-character strings.        *)
(***************************************************************************)
LowerCase == <<"a", "b", "c", "d", "e", "f", "g", "h", "i", "j", "k", "l", "m",
               "n", "o", "p", "q", "r", "s", "t", "u", "v", "w", "x", "y", "z">>
UpperCase == <<"A", "B", "C", "D", "E", "F", "G", "H", "I", "J", "K", "L", "M",
               "N", "O", "P", "Q", "R", "S", "T", "U", "V", "W", "X", "Y", "Z">>
Letters == 1..Len(LowerCase)

\* The class [a-zA-Z0-9 -] of the regular expression.
InClass(c) ==
    \/ \E j \in Letters : c = LowerCase[j] \/ c = UpperCase[j]
    \/ c \in {"0", "1", "2", "3", "4", "5", "6", "7", "8", "9", " ", "-"}

\* re.sub(r'[^a-zA-Z0-9 -]', '', data)
RECURSIVE re_sub(_)
re_sub(text) ==
    IF text = <<>> THEN <<>>
    ELSE IF InClass(Head(text)) THEN <<Head(text)>> \o re_sub(Tail(text))
         ELSE re_sub(Tail(text))

\* str.upper()
upper(text) ==
    [i \in 1..Len(text) |->
        IF \E j \in Letters : text[i] = LowerCase[j]
        THEN UpperCase[CHOOSE j \in Letters : text[i] = LowerCase[j]]
        ELSE text[i]]

\* websocket.py 19, connection.py 31
symbol(text) == upper(re_sub(text))

\* app.trading_pairs: the allow-list of supported symbols.
TRADING_PAIRS == {<<"B", "T">>, <<"E", "T">>}

\* The text frames a client sends.
ClientFrames ==
    {<<"b", "t">>, <<"B", "T">>, <<"b", "!", "t">>, <<"e", "t">>,
     <<"b", " ", "t">>, <<"b", "-", "t", "/">>, <<"x", "!">>, <<>>}

\* {'error': f'pair {data} not found!'} (websocket.py 22) and
\* {"error": f"Pair {data} not found!"} (connection.py 35-37)
NotFoundFrame(text) == [kind |-> "error", msg |-> "not found", text |-> text, task |-> 0]
\* {"error": f"Error fetching order book data: {e}"} (connection.py 53)
InternalErrorFrame == [kind |-> "error", msg |-> "internal", text |-> <<>>, task |-> 0]

FetchErrorFrame == [kind |-> "error", msg |-> "fetching", text |-> <<>>, task |-> 0]
\* {"bids": ..., "asks": ...} sent by the subscription task t
UpdateFrame(t) == [kind |-> "update", msg |-> "", text |-> tasks[t].sym, task |-> t]

IdleSession ==
    /\ variant = "none" /\ spc = "start" /\ session = "absent" /\ conn = "new"
    /\ active = 0 /\ newTask = 0 /\ tasks = <<>> /\ data = <<>> /\ nrecv = 0
    /\ out = <<>> /\ mfault = "none" /\ ndisc = 0

\* ---- ConnectionManager
\* connect(websocket, client_id): the connection is accepted and registered.
ManagerConnect ==
    /\ spc = "start"
    /\ spc' = "receive" /\ session' = "present" /\ conn' = "open"
    /\ UNCHANGED <<variant, active, newTask, tasks, data, nrecv, out, mfault, ndisc>>

\* A plausible slip: the entry of the id is deleted without a test for it.
disconnect_unguarded(ts) ==
    /\ ndisc' = ndisc + 1
    /\ IF session = "absent"
       THEN tasks' = ts /\ mfault' = "KeyError" /\ UNCHANGED <<session, conn, active>>
       ELSE /\ tasks' = IF active # 0 /\ ts[active].state = "running"
                        THEN [ts EXCEPT ![active].state = "cancelling"]
                        ELSE ts
            /\ session' = "absent" /\ conn' = "closed" /\ active' = 0
            /\ UNCHANGED mfault

\* disconnect(client_id), called on the task list ts: the active task is
\* cancelled, the connection closed and the entry removed; nothing happens for
\* an id without an entry.
disconnect(ts) ==
    /\ ndisc' = ndisc + 1
    /\ IF session = "absent"
       THEN tasks' = ts /\ UNCHANGED <<session, conn, active, mfault>>
       ELSE /\ tasks' = IF active # 0 /\ ts[active].state = "running"
                        THEN [ts EXCEPT ![active].state = "cancelling"]
                        ELSE ts
            /\ session' = "absent" /\ conn' = "closed" /\ active' = 0
            /\ UNCHANGED mfault

\* set_task(client_id, t), called on the task list ts: a previous task that
\* has not finished is cancelled and awaited before t is installed.
set_task(t, ts) ==
    IF active # 0 /\ ts[active].state # "done"
    THEN /\ tasks' = [ts EXCEPT ![active].state = "cancelling"]
         /\ newTask' = t /\ spc' = "set_task_wait"
         /\ UNCHANGED active
    ELSE /\ tasks' = ts /\ active' = t
         /\ UNCHANGED <<newTask, spc>>

\* set_task resumes once the cancelled task has finished.
SetTaskInstalls ==
    /\ spc = "set_task_wait" /\ tasks[active].state = "done"
    /\ active' = newTask /\ newTask' = 0 /\ spc' = "receive"
    /\ UNCHANGED <<variant, session, conn, tasks, data, nrecv, out, mfault, ndisc>>

\* ---- the subscription task watch_and_send(websocket, symbol)
\* One update is sent to the client connection.
TaskSends ==
    \E t \in 1..Len(tasks) :
        /\ tasks[t].state = "running" /\ conn = "open" /\ Len(out) < MaxOut
        /\ out' = Append(out, UpdateFrame(t))
        /\ UNCHANGED <<variant, spc, session, conn, active, newTask, tasks, data, nrecv, mfault, ndisc>>

\* The task finishes: its cancellation completes, or it ends on a fault.
TaskStops ==
    \E t \in 1..Len(tasks) :
        /\ tasks[t].state \in {"running", "cancelling"}
        /\ tasks' = [tasks EXCEPT ![t].state = "done"]
        /\ UNCHANGED <<variant, spc, session, conn, active, newTask, data, nrecv, out, mfault, ndisc>>

\* ---- order_book_stream
\* The symbol is not in TRADING_PAIRS: websocket.py 21-22, connection.py 34-38.
\* A plausible slip: the frame names the cleaned symbol.
NotFound_names_symbol(text) ==
    /\ Len(out) < MaxOut
    /\ out' = Append(out, NotFoundFrame(symbol(text)))
    /\ UNCHANGED <<spc, session, conn, active, newTask, tasks, mfault, ndisc>>

NotFound(text) ==
    /\ Len(out) < MaxOut
    /\ out' = Append(out, NotFoundFrame(text))
    /\ UNCHANGED <<spc, session, conn, active, newTask, tasks, mfault, ndisc>>

\* A plausible slip: the new task is created and never handed to set_task.
SwitchSymbol_no_set_task(sym) ==
    /\ Len(tasks) < MaxTasks
    /\ tasks' = Append(tasks, [sym |-> sym, state |-> "running"])
    /\ UNCHANGED <<spc, session, conn, active, newTask, out, mfault, ndisc>>

\* websocket.py 24-26: the task is created, then set_task is awaited.
SwitchSymbol(sym) ==
    /\ Len(tasks) < MaxTasks
    /\ set_task(Len(tasks) + 1, Append(tasks, [sym |-> sym, state |-> "running"]))
    /\ UNCHANGED <<session, conn, out, mfault, ndisc>>

\* connection.py 40-57.  process_order_book_updates is an async generator
\* function, so loop.create_task raises TypeError before set_task is reached;
\* the except clause reports it, the finally clause finds the session's task
\* (none was installed) and disconnects, and the while loop goes round.
StartStream(sym) ==
    /\ Len(out) < MaxOut
    /\ out' = Append(out, FetchErrorFrame)
    /\ disconnect(tasks)
    /\ UNCHANGED <<spc, newTask>>

\* websocket.py 18-26, connection.py 30-57: one text frame from the client.
ReceiveText ==
    /\ spc = "receive" /\ conn = "open" /\ nrecv < MaxRecv
    /\ \E text \in ClientFrames :
        /\ data' = text /\ nrecv' = nrecv + 1
        /\ IF symbol(text) \notin TRADING_PAIRS THEN NotFound(text)
           ELSE IF variant = "websocket" THEN SwitchSymbol(symbol(text))
           ELSE StartStream(symbol(text))
    /\ UNCHANGED variant

\* receive_text raises WebSocketDisconnect (the client left, or the connection
\* was closed by disconnect): websocket.py 27-28, connection.py 59-61.
ReceiveDisconnect ==
    /\ spc = "receive" /\ conn \in {"open", "closed"}
    /\ disconnect(tasks) /\ spc' = "ended"
    /\ UNCHANGED <<variant, newTask, data, nrecv, out>>

\* receive_text raises another exception (a binary frame has no text; the
\* connection is not connected any more).  websocket.py has no clause for it;
\* connection.py 62-65 disconnects and then sends the frame, which reaches the
\* client only if the connection is still open.
ReceiveFails ==
    /\ spc = "receive" /\ conn \in {"open", "closed"}
    /\ IF variant = "websocket"
       THEN UNCHANGED <<session, conn, active, tasks, out, mfault, ndisc>>
       ELSE /\ disconnect(tasks)
            /\ out' = IF conn' = "open" THEN Append(out, InternalErrorFrame) ELSE out
    /\ spc' = "crashed"
    /\ UNCHANGED <<variant, newTask, data, nrecv>>

(***************************************************************************)
(* Specifications                                                          *)
(***************************************************************************)
Init == IdleBook /\ IdleCall /\ IdleSync /\ IdleSession

Next ==
    \/ Accept /\ UNCHANGED <<bookVars, callVars, sessVars>>
    \/ Connect /\ UNCHANGED <<bookVars, callVars, sessVars>>
    \/ FetchSnapshot /\ UNCHANGED <<bookVars, callVars, sessVars>>
    \/ Arrives /\ UNCHANGED <<bookVars, callVars, sessVars>>
    \/ Resume /\ UNCHANGED <<bookVars, callVars, sessVars>>
    \/ NextMessage /\ UNCHANGED <<bookVars, callVars, sessVars>>
    \/ StreamEnds /\ UNCHANGED <<bookVars, callVars, sessVars>>
    \/ StreamBreaks /\ UNCHANGED <<bookVars, callVars, sessVars>>
    \/ SendText /\ UNCHANGED <<bookVars, callVars, sessVars>>
    \/ LoopEnds /\ UNCHANGED <<bookVars, callVars, sessVars>>
    \/ LoopRaises /\ UNCHANGED <<bookVars, callVars, sessVars>>
    \/ Cancelled /\ UNCHANGED <<bookVars, callVars, sessVars>>

Spec == Init /\ [][Next]_vars

NextBook ==
    \/ UpdateBids /\ UNCHANGED <<callVars, syncVars, sessVars>>
    \/ UpdateAsks /\ UNCHANGED <<callVars, syncVars, sessVars>>
    \/ UpdateBoth /\ UNCHANGED <<callVars, syncVars, sessVars>>

SpecBook == Init /\ [][NextBook]_vars

NextTop ==
    \/ UpdateLevels /\ UNCHANGED <<callVars, syncVars, sessVars>>
    \/ UpdateOneBid /\ UNCHANGED <<callVars, syncVars, sessVars>>
    \/ UpdateOneAsk /\ UNCHANGED <<callVars, syncVars, sessVars>>

SpecTop == Init /\ [][NextTop]_vars

InitSession ==
    /\ IdleBook /\ IdleCall /\ IdleSync
    /\ variant \in {"websocket", "connection"}
    /\ spc = "start" /\ session = "absent" /\ conn = "new"
    /\ active = 0 /\ newTask = 0 /\ tasks = <<>> /\ data = <<>> /\ nrecv = 0
    /\ out = <<>> /\ mfault = "none" /\ ndisc = 0

NextSession ==
    \/ ManagerConnect /\ UNCHANGED <<bookVars, callVars, syncVars>>
    \/ ReceiveText /\ UNCHANGED <<bookVars, callVars, syncVars>>
    \/ ReceiveDisconnect /\ UNCHANGED <<bookVars, callVars, syncVars>>
    \/ ReceiveFails /\ UNCHANGED <<bookVars, callVars, syncVars>>
    \/ SetTaskInstalls /\ UNCHANGED <<bookVars, callVars, syncVars>>
    \/ TaskSends /\ UNCHANGED <<bookVars, callVars, syncVars>>
    \/ TaskStops /\ UNCHANGED <<bookVars, callVars, syncVars>>

SpecSession == InitSession /\ [][NextSession]_vars

InitCall ==
    /\ bids \in BooksOver(CallPrices) /\ asks \in BooksOver({Dec(1, 0)})
    /\ stale = [b |-> {}, a |-> {}] /\ bookFault = "none"
    /\ args \in CallArgs /\ applied = "no"
    /\ before = [b |-> EmptyDict, a |-> EmptyDict]
    /\ IdleSync /\ IdleSession

NextCall ==
    \/ FirstCall /\ UNCHANGED <<syncVars, sessVars>>
    \/ SecondCall /\ UNCHANGED <<syncVars, sessVars>>

SpecCall == InitCall /\ [][NextCall]_vars

(***************************************************************************)
(* Claims about the synchroniser (specification Spec).                     *)
(***************************************************************************)
Diff(e) == [src |-> "diff", U |-> e.U, u |-> e.u, bids |-> e.b, asks |-> e.a]

\* A step of the loop of process_order_book_updates that looked at the depth
\* event ev': the loop was waiting, and the step changed something or raised.
LooksAtEvent ==
    /\ gpc = "loop" /\ ev'.kind = "depthUpdate"
    /\ gpc' \in {"loop", "yield_diff", "raised"}
    /\ (ev' # ev \/ emitted' # emitted \/ fault' = "StreamIntegrityError")

\* C1: once a diff event has been retained, a later event e with
\* e.last_seq > U0 is emitted only if e.first_seq = previous.last_seq + 1, where
\* previous is the last retained event; any other first_seq raises
\* StreamIntegrityError and nothing is emitted for the event.
C1_ContinuityAfterRetained ==
    [][(LooksAtEvent /\ Len(emitted) >= 2 /\ ev'.u > U0)
         => /\ prev = emitted[Len(emitted)].u
            /\ IF ev'.U = prev + 1
               THEN emitted' = Append(emitted, Diff(ev')) /\ fault' = "none"
               ELSE /\ emitted' = emitted /\ pending' = pending
                    /\ gpc' = "raised" /\ fault' = "StreamIntegrityError"]_vars

\* A gap of one after a retained event (previous.last_seq = p, first_seq = p + 2)
\* has raised the fault.
C1_Witness ==
    /\ Len(emitted) >= 2 /\ ev.kind = "depthUpdate" /\ ev.u > U0
    /\ ev.U = prev + 2 /\ prev = emitted[Len(emitted)].u
    /\ gpc = "raised" /\ fault = "StreamIntegrityError"

\* C2 (as claimed): the first event with last_seq > U0 is accepted and yields
\* exactly one update whenever first_seq <= U0 + 1 <= last_seq, and the fault is
\* raised only when that condition is violated.
C2_AnchoringAsClaimed ==
    [][(LooksAtEvent /\ Len(emitted) = 1 /\ ev'.u > U0)
         => IF ev'.U <= U0 + 1 /\ U0 + 1 <= ev'.u
            THEN emitted' = Append(emitted, Diff(ev')) /\ fault' = "none"
            ELSE emitted' = emitted /\ fault' = "StreamIntegrityError"]_vars

\* C3: an event with last_seq <= U0 is discarded: nothing is emitted, no fault
\* is raised, previous_last_update_id keeps its value and the loop goes on to
\* the next event.
C3_OutdatedDiscarded ==
    [][(gpc = "loop" /\ ev' # ev /\ ev'.kind = "depthUpdate" /\ ev'.u <= U0)
         => /\ emitted' = emitted /\ pending' = pending
            /\ fault' = "none" /\ prev' = prev
            /\ gpc' = "loop" /\ stream' = "open"]_vars

\* An outdated event that does not continue the previous one has been passed
\* over, and the loop is waiting for the next event.
C3_Witness ==
    /\ gpc = "loop" /\ ev.kind = "depthUpdate" /\ ev.u <= U0
    /\ ev.U # prev + 1 /\ fault = "none" /\ Len(emitted) >= 2

Recoverable == {"StreamIntegrityError", "ConnectionClosedError", "ConnectionClosed",
                "socket.error", "TimeoutError"}

\* C4 (as claimed): a stream integrity fault, a transport error or a timeout
\* does not end the sequence the consumer sees: the generator stays alive to
\* reopen the subscription and fetch a new snapshot, and the handler keeps
\* streaming.
C4_FaultRestartsAsClaimed ==
    fault \in Recoverable => (gpc # "raised" /\ hpc \in {"streaming", "cancelled"})

\* C5 (as claimed): unless the consumer cancels it, the sequence never reaches
\* an ended state, whether the upstream closes cleanly or breaks.
C5_NeverEndsAsClaimed ==
    hpc \in {"init", "streaming"} => gpc \notin {"returned", "raised"}

DiffIndexes == {i \in 1..Len(emitted) : emitted[i].src = "diff"}

\* C6 (as claimed): of two diff updates emitted one after the other, the second
\* has the larger last_seq, whatever first_seq/last_seq pairs the events carry.
C6_StrictlyIncreasingAsClaimed ==
    \A i \in DiffIndexes : \A j \in DiffIndexes :
        j = i + 1 => emitted[j].u > emitted[i].u

\* C6 (amended): of two diff updates emitted one after the other from e1 then
\* e2, e2.first_seq = e1.last_seq + 1; so e2.last_seq > e1.last_seq whenever e2
\* is well formed (e2.first_seq <= e2.last_seq).
C6_IncreasingWhenWellFormed ==
    \A i \in DiffIndexes : \A j \in DiffIndexes :
        j = i + 1 =>
            /\ emitted[j].U = emitted[i].u + 1
            /\ emitted[j].U <= emitted[j].u => emitted[j].u > emitted[i].u

\* Two well-formed diff events have been emitted one after the other.
C6_Witness ==
    /\ Len(emitted) >= 3
    /\ emitted[2].src = "diff" /\ emitted[3].src = "diff"
    /\ emitted[3].U <= emitted[3].u /\ emitted[3].u > emitted[2].u

(***************************************************************************)
(* Claims about the OrderBook (specifications SpecBook and SpecTop).       *)
(***************************************************************************)
\* C9: after any sequence of update calls from the empty book, no price of
\* either side is stored with a quantity equal to zero.
C9_NoZeroQuantity ==
    /\ \A k \in DOMAIN bids : bids[k].c # 0
    /\ \A k \in DOMAIN asks : asks[k].c # 0

\* Both sides hold a level, and on both sides a level was removed by a zero
\* quantity.
C9_Witness ==
    /\ stale.b # {} /\ stale.a # {}
    /\ DOMAIN bids # {} /\ DOMAIN asks # {}

Min(a, b) == IF a < b THEN a ELSE b

\* The i-th highest and the i-th lowest price key of a side.
Highest(K, i) == CHOOSE k \in K : Cardinality({x \in K : x > k}) = i - 1
Lowest(K, i) == CHOOSE k \in K : Cardinality({x \in K : x < k}) = i - 1

\* C10: top_bids is the quantities of the min(20, levels) highest bids, highest
\* price first; top_asks the quantities of the min(20, levels) lowest asks,
\* lowest price first; neither is longer than 20 nor holds a level whose latest
\* update had quantity 0.
C10_TopWindows ==
    LET B == DOMAIN bids
        A == DOMAIN asks
        nb == Min(20, Cardinality(B))
        na == Min(20, Cardinality(A))
    IN  /\ top_bids(bids) = [i \in 1..nb |-> DecStr(bids[Highest(B, i)])]
        /\ top_asks(asks) = [i \in 1..na |-> DecStr(asks[Lowest(A, i)])]
        /\ Len(top_bids(bids)) <= 20 /\ Len(top_asks(asks)) <= 20
        /\ \A i \in 1..nb : Highest(B, i) \notin stale.b
        /\ \A i \in 1..na : Lowest(A, i) \notin stale.a

\* More than 20 levels on both sides after the best bid and the best ask were
\* removed by a later update.
C10_Witness ==
    /\ Cardinality(DOMAIN bids) > 20 /\ Cardinality(DOMAIN asks) > 20
    /\ \E k \in stale.b : \A x \in DOMAIN bids : x < k
    /\ \E k \in stale.a : \A x \in DOMAIN asks : x > k

(***************************************************************************)
(* Claims about the client handler (specification SpecSession).            *)
(***************************************************************************)
Running == {t \in 1..Len(tasks) : tasks[t].state = "running"}

Cleaned(text) ==
    LET kept == SelectSeq(text, LAMBDA c :
                    c \in {LowerCase[j] : j \in Letters}
                          \cup {UpperCase[j] : j \in Letters}
                          \cup {"0", "1", "2", "3", "4", "5", "6", "7", "8", "9", " ", "-"})
    IN  [i \in 1..Len(kept) |->
            IF kept[i] \in {LowerCase[j] : j \in Letters}
            THEN UpperCase[CHOOSE j \in Letters : LowerCase[j] = kept[i]]
            ELSE kept[i]]

\* C8: a client frame whose cleaned, upper-cased text is not a supported pair
\* gets exactly one error frame naming the original input; no task is created,
\* set_task is not called, an existing subscription is left as it is, and the
\* handler waits for the next inbound frame.
C8_UnsupportedSymbol ==
    [][(nrecv' = nrecv + 1 /\ Cleaned(data') \notin TRADING_PAIRS)
         => /\ out' = Append(out, NotFoundFrame(data'))
            /\ tasks' = tasks /\ active' = active /\ newTask' = newTask
            /\ session' = session /\ conn' = conn
            /\ spc' = "receive"]_vars

\* A streaming client sent an unsupported frame that the cleaning changes: the
\* error frame names the frame as sent, the subscription still runs.
C8_Witness ==
    /\ nrecv >= 2 /\ Cleaned(data) \notin TRADING_PAIRS /\ Cleaned(data) # data
    /\ Len(out) >= 1 /\ out[Len(out)] = NotFoundFrame(data)
    /\ active # 0 /\ tasks[active].state = "running"
    /\ spc = "receive"

\* C12: disconnect never raises, and a call for an id without an entry (a
\* second call on the same path, the outer clause after the inner finally)
\* leaves the registry, the connection and the tasks as they are.
C12_DisconnectIdempotent ==
    [][/\ mfault' = "none"
       /\ (ndisc' = ndisc + 1 /\ session = "absent")
              => /\ session' = "absent" /\ conn' = conn
                 /\ active' = active /\ tasks' = tasks]_vars

\* connection.py: disconnect was called by the inner finally and again by an
\* outer clause.
C12_Witness ==
    /\ variant = "connection" /\ ndisc = 2 /\ spc \in {"ended", "crashed"}
    /\ session = "absent" /\ conn = "closed" /\ mfault = "none"

\* C13 (as claimed): when the handler has met an unexpected exception, the
\* internal error frame is the last frame the client was sent and the session
\* has been removed after it.
C13_ErrorFrameThenTeardownAsClaimed ==
    spc = "crashed"
        => /\ session = "absent"
           /\ out # <<>> /\ out[Len(out)] = InternalErrorFrame

\* C14 (as claimed): a session is removed only when the client has left or
\* the handler has met an unexpected exception; after a failed stream it is
\* still registered and its connection open.
C14_FailureKeepsSessionAsClaimed ==
    (session = "absent" /\ spc # "start") => spc \in {"ended", "crashed"}

\* C15: the snapshot is the first update of the generator and every later one
\* is a diff; while no snapshot has been fetched, and for good when the request
\* failed, nothing is emitted and nothing is sent, whatever has arrived on the
\* open subscription.
C15_SnapshotFirst ==
    /\ \A i \in 1..Len(emitted) :
           emitted[i].src = IF i = 1 THEN "snapshot" ELSE "diff"
    /\ U0 = NoneId => (emitted = <<>> /\ frames = <<>> /\ pending = NoUpdate)
    /\ (gpc = "raised" /\ fault \in {"TimeoutError", "ClientResponseError"})
           => (emitted = <<>> /\ frames = <<>>)

\* The snapshot request failed with messages waiting on the subscription.
C15_Witness ==
    /\ gpc = "raised" /\ fault = "ClientResponseError" /\ stream = "closed"
    /\ buffered > 0 /\ emitted = <<>> /\ frames = <<>>

\* The update the loop yields for event e after the history of updates h, as
\* far as h decides it: nothing for an outdated event, a diff for one that
\* continues the last update of h, the fault otherwise.
AfterHistory(h, e) ==
    IF e.u <= h[1].u THEN "discard"
    ELSE IF e.U = h[Len(h)].u + 1 THEN "emit" ELSE "fault"

\* C16: a message that is not JSON or not a depth event is skipped: no update
\* is emitted, the identifiers kept by the loop are unchanged, the subscription
\* stays open and no fault is raised; the depth event that follows it is judged
\* against the updates emitted before the skipped message.
C16_SkippedMessage ==
    [][/\ (gpc = "loop" /\ ev' # ev /\ ev'.kind \in {"other", "badjson"})
           => /\ emitted' = emitted /\ pending' = pending
              /\ prev' = prev /\ U0' = U0
              /\ gpc' = "loop" /\ stream' = "open" /\ fault' = "none"
       /\ (LooksAtEvent /\ ev.kind \in {"other", "badjson"})
           => CASE AfterHistory(emitted, ev') = "discard" ->
                       emitted' = emitted /\ gpc' = "loop"
                [] AfterHistory(emitted, ev') = "emit" ->
                       emitted' = Append(emitted, Diff(ev')) /\ gpc' = "yield_diff"
                [] AfterHistory(emitted, ev') = "fault" ->
                       emitted' = emitted /\ fault' = "StreamIntegrityError"]_vars

\* A message of another type whose identifiers would be a gap has been passed
\* over after a retained event, and the loop waits for the next message.
C16_Witness ==
    /\ gpc = "loop" /\ ev.kind = "other" /\ ev.u > U0 /\ ev.U = prev + 2
    /\ Len(emitted) >= 2 /\ prev = emitted[Len(emitted)].u
    /\ fault = "none" /\ stream = "open"

\* C17: the frames sent are, in order, the raw bid and ask lists of the updates
\* emitted, one frame for each update; only the update being sent has no frame
\* yet.
C17_FramePerUpdate ==
    /\ Len(frames) = IF pending = NoUpdate THEN Len(emitted) ELSE Len(emitted) - 1
    /\ \A i \in 1..Len(frames) :
           frames[i] = [bids |-> emitted[i].bids, asks |-> emitted[i].asks]

C17_Witness ==
    /\ Len(frames) = MaxEmit /\ pending = NoUpdate
    /\ frames[1] = [bids |-> SnapshotLists.b, asks |-> SnapshotLists.a]
    /\ frames[Len(frames)].bids # frames[Len(frames) - 1].bids

\* C19: the accepted client connection is closed exactly once when the
\* handler is left, whichever way it is left, and not before.
C19_ClosedExactlyOnce ==
    /\ hpc \in {"done", "failed", "cancelled"} => closes = 1
    /\ hpc \in {"init", "streaming"} => closes = 0

C19_Witness ==
    /\ hpc = "failed" /\ fault = "ClientResponseError" /\ closes = 1
    /\ emitted = <<>>

(***************************************************************************)
(* Claims about update as a function of the book and its lists (SpecCall)  *)
(***************************************************************************)
Named(updates) == {Key(updates[i].price) : i \in DOMAIN updates}

\* Every offer of the list has quantity 0 and a price that is not a key of d.
ZeroForAbsent(d, updates) ==
    \A i \in DOMAIN updates :
        IsZero(updates[i].quantity) /\ Key(updates[i].price) \notin DOMAIN d

\* C11: an update whose offers all carry quantity 0 for a price that is not
\* on their side raises no exception and leaves both sides as they were.
C11_ZeroForAbsentIsNoOp ==
    (/\ applied # "no"
     /\ args.b \o args.a # <<>>
     /\ ZeroForAbsent(before.b, args.b)
     /\ ZeroForAbsent(before.a, args.a))
    => (bids = before.b /\ asks = before.a /\ bookFault = "none")

C11_Witness ==
    /\ applied = "once"
    /\ args.b = <<Offer(Dec(10, 1), Dec(0, 0))>> /\ args.a = <<Offer(Dec(1, 0), Dec(0, 0))>>
    /\ DOMAIN before.b = {Key(Dec(2, 0))} /\ before.a = EmptyDict
    /\ bids = before.b /\ bookFault = "none"

\* The last offer of the list that names price key k (0 if none does).
LastNaming(updates, k) ==
    IF k \in Named(updates)
    THEN CHOOSE i \in DOMAIN updates :
             /\ Key(updates[i].price) = k
             /\ \A j \in DOMAIN updates : Key(updates[j].price) = k => j <= i
    ELSE 0

\* Side post is side pre changed at the prices the list names and nowhere
\* else, each named price as its last offer in the list says.
OnlyNamedLevels(post, pre, updates) ==
    \A k \in DOMAIN post \cup DOMAIN pre \cup Named(updates) :
        LET i == LastNaming(updates, k)
        IN  IF i = 0
            THEN /\ k \in DOMAIN post <=> k \in DOMAIN pre
                 /\ k \in DOMAIN pre => post[k] = pre[k]
            ELSE IF IsZero(updates[i].quantity)
                 THEN k \notin DOMAIN post
                 ELSE k \in DOMAIN post /\ post[k] = updates[i].quantity

\* C18: update changes only the price levels its lists name; the bid list
\* decides the bid side alone and the ask list the ask side alone; of several
\* offers for one price the last one decides.
C18_OnlyNamedLevels ==
    applied # "no" =>
        /\ OnlyNamedLevels(bids, before.b, args.b)
        /\ OnlyNamedLevels(asks, before.a, args.a)

C18_Witness ==
    /\ applied = "once"
    /\ args.b = <<Offer(Dec(1, 0), Dec(25, 1)), Offer(Dec(10, 1), Dec(0, 0))>>
    /\ args.a = <<Offer(Dec(1, 0), Dec(25, 1))>>
    /\ DOMAIN before.b = {Key(Dec(1, 0)), Key(Dec(2, 0))}
    /\ DOMAIN bids = {Key(Dec(2, 0))} /\ bids[Key(Dec(2, 0))] = before.b[Key(Dec(2, 0))]
    /\ DOMAIN asks = {Key(Dec(1, 0))}

\* C20: a second call of update with the same lists leaves the book as the
\* first call left it.
C20_UpdateIdempotent ==
    applied = "twice" => (bids = before.b /\ asks = before.a)

C20_Witness ==
    /\ applied = "twice"
    /\ Len(args.b) = MaxOffers /\ args.a # <<>>
    /\ \E i \in DOMAIN args.b : ~IsZero(args.b[i].quantity)
    /\ \E i \in DOMAIN args.b : IsZero(args.b[i].quantity)
    /\ bids # EmptyDict /\ bids = before.b

====
